---- MODULE Spec2Model ----
(***************************************************************************)
(* Krylov subspace solvers of TIGRE (CGLS, LSQR, LSMR):                    *)
(*   src/Python/tigre/algorithms/krylov_subspace_algorithms.py             *)
(*                                                                         *)
(* Floating point numbers are modelled as fixed-point numbers: the integer *)
(* n stands for the real n / Scale.  A result whose magnitude exceeds      *)
(* MaxFin overflows to an infinity, a result smaller than 1 / Scale rounds *)
(* to zero, and NaN / +Inf / -Inf follow the IEEE-754 rules that numpy     *)
(* applies (a division by zero is a warning, never an exception).          *)
(* Image and data space both have Dim elements; the projector Ax and the   *)
(* backprojector Atb are the diagonal operators geo.a and geo.b, which     *)
(* need not be adjoint to each other ("matched" is only approximately the  *)
(* adjoint of "Siddon").                                                   *)
(***************************************************************************)
EXTENDS Integers, Sequences, FiniteSets, TLC

\* ------------------------------------------------------------------ bounds
Scale == 16
MaxFin == 32000
Dim == 2
MaxNiter == 4

\* ------------------------------------------------- floating point numbers
PosInf == MaxFin + 1
NegInf == 0 - (MaxFin + 1)
NaN == MaxFin + 2

IsNaN(x) == x = NaN
IsInf(x) == x = PosInf \/ x = NegInf
IsFinite(x) == ~IsNaN(x) /\ ~IsInf(x)

Abs(n) == IF n < 0 THEN 0 - n ELSE n
Sgn(n) == IF n < 0 THEN 0 - 1 ELSE 1

\* an exact integer result, overflowing to an infinity
Clamp(n) == IF n > MaxFin THEN PosInf ELSE IF n < 0 - MaxFin THEN NegInf ELSE n

\* integer division rounding toward zero
TDiv(n, d) == Sgn(n) * Sgn(d) * (Abs(n) \div Abs(d))

FNeg(x) == IF IsNaN(x) THEN NaN ELSE 0 - x

FAdd(x, y) ==
    IF IsNaN(x) \/ IsNaN(y) THEN NaN
    ELSE IF IsInf(x) /\ IsInf(y) THEN (IF x = y THEN x ELSE NaN)
    ELSE IF IsInf(x) THEN x
    ELSE IF IsInf(y) THEN y
    ELSE Clamp(x + y)

FSub(x, y) == FAdd(x, FNeg(y))

FMul(x, y) ==
    IF IsNaN(x) \/ IsNaN(y) THEN NaN
    ELSE IF IsInf(x) \/ IsInf(y)
         THEN (IF x = 0 \/ y = 0 THEN NaN
               ELSE IF Sgn(x) * Sgn(y) > 0 THEN PosInf ELSE NegInf)
    ELSE Clamp(TDiv(x * y, Scale))

FDiv(x, y) ==
    IF IsNaN(x) \/ IsNaN(y) THEN NaN
    ELSE IF IsInf(x) THEN (IF IsInf(y) THEN NaN
                           ELSE IF Sgn(x) * Sgn(y) > 0 THEN PosInf ELSE NegInf)
    ELSE IF IsInf(y) THEN 0
    ELSE IF y = 0 THEN (IF x = 0 THEN NaN ELSE IF x > 0 THEN PosInf ELSE NegInf)
    ELSE Clamp(TDiv(x * Scale, y))

RECURSIVE ISqrt(_, _, _)
\* the largest k in lo..hi with k * k <= n  (lo * lo <= n < (hi + 1) * (hi + 1))
ISqrt(n, lo, hi) ==
    IF lo >= hi THEN lo
    ELSE LET mid == (lo + hi + 1) \div 2
         IN  IF mid * mid <= n THEN ISqrt(n, mid, hi) ELSE ISqrt(n, lo, mid - 1)

FSqrt(x) ==
    IF IsNaN(x) THEN NaN
    ELSE IF x = PosInf THEN PosInf
    ELSE IF x < 0 THEN NaN
    ELSE ISqrt(x * Scale, 0, 46340)

\* x > y as numpy evaluates it: every comparison with a NaN is False
FGt(x, y) == ~IsNaN(x) /\ ~IsNaN(y) /\ x > y

\* the float of an integer literal
Lit(n) == n * Scale

\* ----------------------------------------------------------------- arrays
Idx == 1..Dim
Zeros == [k \in Idx |-> 0]

VAdd(x, y) == [k \in Idx |-> FAdd(x[k], y[k])]
VSub(x, y) == [k \in Idx |-> FSub(x[k], y[k])]
VScale(c, x) == [k \in Idx |-> FMul(c, x[k])]
VDivS(x, c) == [k \in Idx |-> FDiv(x[k], c)]

RECURSIVE SumSq(_, _)
SumSq(x, n) == IF n = 0 THEN 0 ELSE FAdd(SumSq(x, n - 1), FMul(x[n], x[n]))

\* np.linalg.norm(x, 2)
Norm(x) == FSqrt(SumSq(x, Dim))

\* mutation of AnyNaN: np.isnan(x).all()
AllNaN(x) == \A k \in DOMAIN x : IsNaN(x[k])

\* np.isnan(x).any()
AnyNaN(x) == \E k \in DOMAIN x : IsNaN(x[k])

\* tigre.Ax(x, geo, angles, "Siddon") and tigre.Atb(y, geo, angles, "matched")
Ax(x, geo) == [k \in Idx |-> FMul(Lit(geo.a[k]), x[k])]
Atb(y, geo) == [k \in Idx |-> FMul(Lit(geo.b[k]), y[k])]

\* ------------------------------------------------------------------ inputs
Solvers == {"CGLS", "LSQR", "LSMR"}
\* per element, the projector's and the backprojector's weight: matched,
\* a backprojector that is too strong or too weak, and an element no ray hits
Coefs == {<<1, 1>>, <<2, 3>>, <<2, 1>>, <<0, 2>>}
PVals == {1, 3}
Geos == {[a |-> [k \in Idx |-> c[k][1]], b |-> [k \in Idx |-> c[k][2]]] :
            c \in [Idx -> Coefs]}
Projs == [Idx -> {Lit(c) : c \in PVals}]
Lmbdas == {0, Lit(1)}

VARIABLES
    solver,     \* which of the three classes is instantiated
    niter,      \* self.niter
    verbose,    \* self.verbose
    geo,        \* self.geo, self.angles: the operator pair
    self,       \* the instance attributes (proj, res, recurrence state)
    l2l,        \* self.l2l[0, :], slot i at index i + 1; <<>> before the run
    pc,         \* position in run_main_iter
    i,          \* the loop variable
    loc,        \* locals of the CGLS loop body that outlive one statement
    err,        \* the attribute named by the ValueError, "" when none
    res_prev,   \* self.res at the top of the loop body
    calls,      \* Ax / Atb evaluations of the current loop iteration
    restarts,   \* loop indices at which reinitialise_cgls was called
    executed    \* number of passes through the loop body begun so far

vars == <<solver, niter, verbose, geo, self, l2l, pc, i, loc, err, res_prev, calls, restarts,
          executed>>

NoCalls == [ax |-> 0, atb |-> 0]
NoLoc == [q |-> Zeros, alpha |-> 0]

\* mutation of InRange: for i in range(self.niter - 1)
InRange_short(k, n) == k + 1 < n

\* for i in range(self.niter)
InRange(k, n) == k < n

\* mutation of NewHistory: np.zeros((1, self.niter + 1))
NewHistory_extra(n) == [k \in 1..(n + 1) |-> 0]

\* np.zeros((1, self.niter))
NewHistory(n) == [k \in 1..n |-> 0]

\* mutation of HistoryWrite: self.l2l[0, k - 1] = x once k > 0
HistoryWrite_prev(h, k, x) == [h EXCEPT ![IF k > 0 THEN k ELSE 1] = x]

\* self.l2l[0, k] = x
HistoryWrite(h, k, x) == [h EXCEPT ![k + 1] = x]

\* -------------------------------------------------------------------- CGLS
\* the three assignments shared by CGLS.__init__ and reinitialise_cgls
reinitialise_cgls(s, g) ==
    LET r == VSub(s.proj, Ax(s.res, g))
        p == Atb(r, g)
        p_norm == Norm(p)
    IN  [s EXCEPT !.r = r, !.p = p, !.gamma = FMul(p_norm, p_norm)]

CGLS_init(proj, res0, g) ==
    reinitialise_cgls(
        [proj |-> proj, res |-> res0, re_init_at_iteration |-> 0,
         r |-> Zeros, p |-> Zeros, gamma |-> 0], g)

\* mutation of TwoConsecutive: self.re_init_at_iteration == i
TwoConsecutive_same(marker, k) == marker = k

\* self.re_init_at_iteration + 1 == i
TwoConsecutive(marker, k) == marker + 1 = k

\* i > 0 and self.l2l[0, i] > self.l2l[0, i - 1]
Diverged(h, k) == k > 0 /\ FGt(h[k + 1], h[k])

\* the ndarray attributes in the order of self.__dict__
ScanOrder == <<"res", "r", "p", "l2l">>
Attr(name) == IF name = "l2l" THEN l2l ELSE self[name]
Corrupt(name) == AnyNaN(Attr(name))

\* the body of the loop starts: lines 58-61
CGLS_Step ==
    /\ solver = "CGLS" /\ pc = "step"
    /\ LET q == Ax(self.p, geo)
           q_norm == Norm(q)
           alpha == FDiv(self.gamma, FMul(q_norm, q_norm))
       IN  /\ loc' = [q |-> q, alpha |-> alpha]
           /\ self' = [self EXCEPT !.res = VAdd(self.res, VScale(alpha, self.p))]
    /\ res_prev' = self.res
    /\ executed' = executed + 1
    /\ calls' = [ax |-> 1, atb |-> 0]
    /\ pc' = "scan"
    /\ UNCHANGED <<solver, niter, verbose, geo, l2l, i, err, restarts>>

\* lines 64-69: raise ValueError at the first ndarray attribute holding a NaN
CGLS_ScanRaise ==
    /\ solver = "CGLS" /\ pc = "scan"
    /\ \E n \in 1..Len(ScanOrder) :
          /\ Corrupt(ScanOrder[n])
          /\ \A m \in 1..(n - 1) : ~Corrupt(ScanOrder[m])
          /\ err' = ScanOrder[n]
    /\ pc' = "error"
    /\ UNCHANGED <<solver, niter, verbose, geo, self, l2l, i, loc, res_prev, calls,
                  restarts, executed>>

CGLS_ScanPass ==
    /\ solver = "CGLS" /\ pc = "scan"
    /\ \A n \in 1..Len(ScanOrder) : ~Corrupt(ScanOrder[n])
    /\ pc' = "resid"
    /\ UNCHANGED <<solver, niter, verbose, geo, self, l2l, i, loc, err, res_prev,
                  calls, restarts, executed>>

\* lines 71-74
CGLS_Resid ==
    /\ solver = "CGLS" /\ pc = "resid"
    /\ LET aux == VSub(self.proj, Ax(self.res, geo))
       IN  l2l' = HistoryWrite(l2l, i, Norm(aux))
    /\ calls' = [calls EXCEPT !.ax = @ + 1]
    /\ pc' = "check"
    /\ UNCHANGED <<solver, niter, verbose, geo, self, i, loc, err, res_prev,
                  restarts, executed>>

\* line 75 is False
CGLS_NoDivergence ==
    /\ solver = "CGLS" /\ pc = "check"
    /\ ~Diverged(l2l, i)
    /\ pc' = "update"
    /\ UNCHANGED <<solver, niter, verbose, geo, self, l2l, i, loc, err, res_prev,
                  calls, restarts, executed>>

\* lines 75-81: return self.res
CGLS_Exit ==
    /\ solver = "CGLS" /\ pc = "check"
    /\ Diverged(l2l, i)
    /\ TwoConsecutive(self.re_init_at_iteration, i)
    /\ pc' = "exited"
    /\ UNCHANGED <<solver, niter, verbose, geo, self, l2l, i, loc, err, res_prev,
                  calls, restarts, executed>>

\* mutation of CGLS_Restart: a "continue" after line 84 ends the iteration
CGLS_Restart_continue ==
    /\ solver = "CGLS" /\ pc = "check"
    /\ Diverged(l2l, i)
    /\ ~TwoConsecutive(self.re_init_at_iteration, i)
    /\ LET undone == [self EXCEPT !.res = VSub(self.res, VScale(loc.alpha, self.p))]
       IN  self' = [reinitialise_cgls(undone, geo) EXCEPT !.re_init_at_iteration = i]
    /\ calls' = [ax |-> calls.ax + 1, atb |-> calls.atb + 1]
    /\ restarts' = restarts \cup {i}
    /\ IF InRange(i + 1, niter)
          THEN i' = i + 1 /\ pc' = "step"
          ELSE i' = i /\ pc' = "summary"
    /\ UNCHANGED <<solver, niter, verbose, geo, l2l, loc, err, res_prev, executed>>

\* lines 75-84: the step is undone and the recurrence restarted; control
\* then falls through to line 86
CGLS_Restart ==
    /\ solver = "CGLS" /\ pc = "check"
    /\ Diverged(l2l, i)
    /\ ~TwoConsecutive(self.re_init_at_iteration, i)
    /\ LET undone == [self EXCEPT !.res = VSub(self.res, VScale(loc.alpha, self.p))]
       IN  self' = [reinitialise_cgls(undone, geo) EXCEPT !.re_init_at_iteration = i]
    /\ calls' = [ax |-> calls.ax + 1, atb |-> calls.atb + 1]
    /\ restarts' = restarts \cup {i}
    /\ pc' = "update"
    /\ UNCHANGED <<solver, niter, verbose, geo, l2l, i, loc, err, res_prev, executed>>

\* lines 86-94, then the loop header
CGLS_Update ==
    /\ solver = "CGLS" /\ pc = "update"
    /\ LET r == VSub(self.r, VScale(loc.alpha, loc.q))
           s == Atb(r, geo)
           s_norm == Norm(s)
           gamma1 == FMul(s_norm, s_norm)
           beta == FDiv(gamma1, self.gamma)
       IN  self' = [self EXCEPT !.r = r, !.gamma = gamma1,
                                !.p = VAdd(s, VScale(beta, self.p))]
    /\ calls' = [calls EXCEPT !.atb = @ + 1]
    /\ IF InRange(i + 1, niter)
          THEN i' = i + 1 /\ pc' = "step"
          ELSE i' = i /\ pc' = "summary"
    /\ UNCHANGED <<solver, niter, verbose, geo, l2l, loc, err, res_prev, restarts,
                  executed>>

\* lines 98-103, verbose and len(avgtime) = 0: sum(avgtime) / len(avgtime)
\* raises ZeroDivisionError; avgtime has one entry per pass through line 63
CGLS_SummaryRaise ==
    /\ solver = "CGLS" /\ pc = "summary"
    /\ verbose /\ executed = 0
    /\ pc' = "error"
    /\ err' = "ZeroDivisionError"
    /\ UNCHANGED <<solver, niter, verbose, geo, self, l2l, i, loc, res_prev, calls,
                  restarts, executed>>

\* lines 98-103 otherwise, and the implicit return
CGLS_Summary ==
    /\ solver = "CGLS" /\ pc = "summary"
    /\ ~(verbose /\ executed = 0)
    /\ pc' = "done"
    /\ UNCHANGED <<solver, niter, verbose, geo, self, l2l, i, loc, err, res_prev, calls,
                  restarts, executed>>

\* -------------------------------------------------------------------- LSQR
\* LSQR.__init__, (1) Initialize
LSQR_init(proj, res0, g) ==
    LET u0 == VSub(proj, Ax(res0, g))
        normr == Norm(u0)
        u == VDivS(u0, normr)
        v0 == Atb(u, g)
        alpha == Norm(v0)
        v == VDivS(v0, alpha)
    IN  [proj |-> proj, res |-> res0, re_init_at_iteration |-> 0,
         u |-> u, beta |-> normr, phibar |-> normr, v |-> v,
         alpha |-> alpha, rhobar |-> alpha, w |-> v]

\* (3)(a), (3)(b): lines 150-157
LSQR_bidiag(s, g) ==
    LET u1 == VSub(Ax(s.v, g), VScale(s.alpha, s.u))
        beta == Norm(u1)
        u == VDivS(u1, beta)
        v1 == VSub(Atb(u, g), VScale(beta, s.v))
        alpha == Norm(v1)
        v == VDivS(v1, alpha)
    IN  [s EXCEPT !.u = u, !.beta = beta, !.v = v, !.alpha = alpha]

\* (4)(a-g), (5): lines 160-170
LSQR_rotate(s) ==
    LET rho == FSqrt(FAdd(FMul(s.rhobar, s.rhobar), FMul(s.beta, s.beta)))
        c == FDiv(s.rhobar, rho)
        sn == FDiv(s.beta, rho)
        theta == FMul(sn, s.alpha)
        phi == FMul(c, s.phibar)
    IN  [s EXCEPT !.rhobar = FMul(FNeg(c), s.alpha),
                  !.phibar = FMul(sn, s.phibar),
                  !.res = VAdd(s.res, VScale(FDiv(phi, rho), s.w)),
                  !.w = VSub(s.v, VScale(FDiv(theta, rho), s.w))]

\* one pass through the loop body, lines 142-176
LSQR_Iter ==
    /\ solver = "LSQR" /\ pc = "iter"
    /\ res_prev' = self.res
    /\ executed' = executed + 1
    /\ self' = LSQR_rotate(LSQR_bidiag(self, geo))
    /\ calls' = [ax |-> 1, atb |-> 1]
    /\ IF InRange(i + 1, niter)
          THEN i' = i + 1 /\ pc' = "iter"
          ELSE i' = i /\ pc' = "done"
    /\ UNCHANGED <<solver, niter, verbose, geo, l2l, loc, err, restarts>>

\* -------------------------------------------------------------------- LSMR
\* LSMR.__init__, (1) Initialize
LSMR_init(proj, res0, g, lmbda) ==
    LET u0 == VSub(proj, Ax(res0, g))
        normr == Norm(u0)
        u == VDivS(u0, normr)
        v0 == Atb(u, g)
        alpha == Norm(v0)
        v == VDivS(v0, alpha)
    IN  [proj |-> proj, res |-> res0, re_init_at_iteration |-> 0, lmbda |-> lmbda,
         u |-> u, beta |-> normr, v |-> v, alpha |-> alpha,
         alphabar |-> alpha, zetabar |-> FMul(alpha, normr),
         rho |-> Lit(1), rhobar |-> Lit(1), cbar |-> Lit(1), sbar |-> 0,
         h |-> v, hbar |-> Zeros,
         betadd |-> normr, betad |-> 0, rhod |-> Lit(1), tautilda |-> 0,
         thetatilda |-> 0, zeta |-> 0, d |-> 0]

\* (3) Continue the bidiagonalization: lines 236-242
LSMR_bidiag(s, g) ==
    LET u1 == VSub(Ax(s.v, g), VScale(s.alpha, s.u))
        beta == Norm(u1)
        u == VDivS(u1, beta)
        v1 == VSub(Atb(u, g), VScale(beta, s.v))
        alpha == Norm(v1)
        v == VDivS(v1, alpha)
    IN  [s EXCEPT !.u = u, !.beta = beta, !.v = v, !.alpha = alpha]

\* mutation of LSMR_hbar: self.__rho__ where line 268 reads rhopre
LSMR_hbar_late(s, thetabar, rho, rhopre, rhobarpre) ==
    VSub(s.h, VScale(FDiv(FMul(thetabar, rho), FMul(rho, rhobarpre)), s.hbar))

\* (7), line 268: rhopre and rhobarpre are the copies taken at lines 250, 259
LSMR_hbar(s, thetabar, rho, rhopre, rhobarpre) ==
    VSub(s.h, VScale(FDiv(FMul(thetabar, rho), FMul(rhopre, rhobarpre)), s.hbar))

\* (4)-(11): lines 245-298; s is the state after LSMR_bidiag.  The result is
\* the new attributes and the value stored in self.l2l[0, i].
LSMR_rotate(s) ==
    LET \* (4)
        alphahat == FSqrt(FAdd(FMul(s.alphabar, s.alphabar), FMul(s.lmbda, s.lmbda)))
        chat == FDiv(s.alphabar, alphahat)
        shat == FDiv(s.lmbda, alphahat)
        \* (5)
        rhopre == s.rho
        rho == FSqrt(FAdd(FMul(alphahat, alphahat), FMul(s.beta, s.beta)))
        c == FDiv(alphahat, rho)
        sn == FDiv(s.beta, rho)
        theta == FMul(sn, s.alpha)
        alphabar == FMul(c, s.alpha)
        \* (6)
        thetabar == FMul(s.sbar, rho)
        rhobarpre == s.rhobar
        rhobar == FSqrt(FAdd(FMul(FMul(s.cbar, rho), FMul(s.cbar, rho)),
                             FMul(theta, theta)))
        cbar == FDiv(FMul(s.cbar, rho), rhobar)
        sbar == FDiv(theta, rhobar)
        zetapre == s.zeta
        zeta == FMul(cbar, s.zetabar)
        zetabar == FMul(FNeg(sbar), s.zetabar)
        \* (7)
        hbar == LSMR_hbar(s, thetabar, rho, rhopre, rhobarpre)
        res == VAdd(s.res, VScale(FDiv(zeta, FMul(rho, rhobar)), hbar))
        h == VSub(s.v, VScale(FDiv(theta, rho), s.h))
        \* (8)
        betaacute == FMul(chat, s.betadd)
        betacheck == FMul(FNeg(shat), s.betadd)
        betahat == FMul(c, betaacute)
        betadd == FMul(FNeg(sn), betaacute)
        \* (9)
        rhotilda == FSqrt(FAdd(FMul(s.rhod, s.rhod), FMul(thetabar, thetabar)))
        ctilda == FDiv(s.rhod, rhotilda)
        stilda == FDiv(thetabar, rhotilda)
        thetatildapre == s.thetatilda
        thetatilda == FMul(stilda, rhobar)
        rhod == FMul(ctilda, rhobar)
        betad == FAdd(FMul(FNeg(stilda), s.betad), FMul(ctilda, betahat))
        \* (10)
        tautilda == FDiv(FSub(zetapre, FMul(thetatildapre, s.tautilda)), rhotilda)
        taud == FDiv(FSub(zeta, FMul(thetatilda, tautilda)), rhod)
        \* (11)
        d == FAdd(s.d, FMul(betacheck, betacheck))
        gamma_var == FAdd(FAdd(d, FMul(FSub(betad, taud), FSub(betad, taud))),
                          FMul(betadd, betadd))
    IN  [self |-> [s EXCEPT !.rho = rho, !.alphabar = alphabar, !.rhobar = rhobar,
                            !.cbar = cbar, !.sbar = sbar, !.zeta = zeta,
                            !.zetabar = zetabar, !.hbar = hbar, !.res = res, !.h = h,
                            !.thetatilda = thetatilda, !.rhod = rhod, !.betad = betad,
                            !.tautilda = tautilda, !.d = d],
         norm |-> FSqrt(gamma_var)]

\* one pass through the loop body, lines 228-305
LSMR_Iter ==
    /\ solver = "LSMR" /\ pc = "iter"
    /\ res_prev' = self.res
    /\ executed' = executed + 1
    /\ LET out == LSMR_rotate(LSMR_bidiag(self, geo))
       IN  /\ self' = out.self
           /\ l2l' = HistoryWrite(l2l, i, out.norm)
    /\ calls' = [ax |-> 1, atb |-> 1]
    /\ IF InRange(i + 1, niter)
          THEN i' = i + 1 /\ pc' = "iter"
          ELSE i' = i /\ pc' = "done"
    /\ UNCHANGED <<solver, niter, verbose, geo, loc, err, restarts>>

\* ------------------------------------------------------------ run_main_iter
\* line 49 and the first evaluation of the loop header
Start ==
    /\ pc = "constructed"
    /\ l2l' = NewHistory(niter)
    /\ pc' = IF InRange(0, niter)
                THEN (IF solver = "CGLS" THEN "step" ELSE "iter")
                ELSE (IF solver = "CGLS" THEN "summary" ELSE "done")
    /\ UNCHANGED <<solver, niter, verbose, geo, self, i, loc, err, res_prev, calls,
                  restarts, executed>>

Init ==
    /\ solver \in Solvers
    /\ niter \in 0..MaxNiter
    /\ verbose \in (IF solver = "CGLS" THEN BOOLEAN ELSE {FALSE})
    /\ geo \in Geos
    /\ \E proj \in Projs :
          \/ solver = "CGLS" /\ self = CGLS_init(proj, Zeros, geo)
          \/ solver = "LSQR" /\ self = LSQR_init(proj, Zeros, geo)
          \/ solver = "LSMR" /\ \E lmbda \in Lmbdas : self = LSMR_init(proj, Zeros, geo, lmbda)
    /\ l2l = <<>>
    /\ pc = "constructed"
    /\ i = 0
    /\ loc = NoLoc
    /\ err = ""
    /\ res_prev = Zeros
    /\ calls = NoCalls
    /\ restarts = {}
    /\ executed = 0

Next ==
    \/ Start
    \/ CGLS_Step
    \/ CGLS_ScanRaise
    \/ CGLS_ScanPass
    \/ CGLS_Resid
    \/ CGLS_NoDivergence
    \/ CGLS_Exit
    \/ CGLS_Restart
    \/ CGLS_Update
    \/ CGLS_SummaryRaise
    \/ CGLS_Summary
    \/ LSQR_Iter
    \/ LSMR_Iter

Spec == Init /\ [][Next]_vars

\* ================================================================== claims
Terminal == {"done", "exited", "error"}

\* slot k of the history, 0-based as in the code
Slot(k) == l2l[k + 1]

\* (r, p, gamma) are what construction computes from s.res
FreshFrom(s) ==
    LET r0 == VSub(s.proj, Ax(s.res, geo))
        p0 == Atb(r0, geo)
    IN  /\ s.r = r0
        /\ s.p = p0
        /\ s.gamma = FMul(Norm(p0), Norm(p0))

\* C1: when CGLS restarts at iteration i - 1 and goes on, iteration i starts
\* with r = proj - Forward(res), p = Adjoint(r) and gamma = ||p||^2 for the
\* reverted res: steps 5-6 were not applied on top of the reinitialisation.
C1_RestartSkipsUpdate ==
    (solver = "CGLS" /\ pc = "step" /\ i > 0 /\ (i - 1) \in restarts)
        => FreshFrom(self)

\* C2: CGLS exits early at iteration i exactly when the residual norm grew at
\* i and a restart was performed at i - 1; a growth that is not preceded by a
\* restart (the first one at i = 1 included) is answered by a restart.
C2_ExitIffRestartedJustBefore ==
    solver = "CGLS" =>
        /\ pc = "exited" =>
              /\ i > 0 /\ FGt(Slot(i), Slot(i - 1))
              /\ (i - 1) \in restarts
        /\ (pc = "update" /\ i > 0 /\ FGt(Slot(i), Slot(i - 1))) =>
              /\ (i - 1) \notin restarts
              /\ i \in restarts

\* C3: the solution returned by the early exit at iteration i is the value
\* res had when iteration i began, without the diverging step alpha * p.
C3_ExitReturnsSolutionBeforeStep ==
    (solver = "CGLS" /\ pc = "exited" /\ (i - 1) \in restarts) => self.res = res_prev

\* C4 as stated: the history has niter values when the loop completes and
\* fewer than niter when CGLS exits early.
C4_HistoryShorterOnExit ==
    /\ pc = "done" => Len(l2l) = niter
    /\ pc = "exited" => Len(l2l) < niter

\* C4 as amended: the history always has exactly niter slots; a slot whose
\* iteration has not begun holds the 0 it was allocated with (so after an
\* early exit at i the slots after i are 0, not missing), and LSQR writes none.
C4_HistoryHasNiterSlots ==
    pc # "constructed" =>
        /\ Len(l2l) = niter
        /\ \A k \in 0..(niter - 1) : k >= executed => Slot(k) = 0
        /\ solver = "LSQR" => \A k \in 0..(niter - 1) : Slot(k) = 0

C4_Witness ==
    /\ solver = "CGLS" /\ pc = "exited"
    /\ i + 1 < niter
    /\ Slot(i) # 0 /\ Slot(i + 1) = 0

\* C5 as stated: a NaN or an infinity in any of res, r, p, gamma after the
\* step update aborts the run before the residual is recomputed.
C5_NonFiniteAborts ==
    (solver = "CGLS" /\ pc = "resid") =>
        /\ \A k \in Idx : IsFinite(self.res[k]) /\ IsFinite(self.r[k]) /\ IsFinite(self.p[k])
        /\ IsFinite(self.gamma)

\* C5 as amended: after the step update, the run aborts exactly when one of
\* the array attributes res, r, p, l2l holds a NaN; the error names such an
\* array, slot i of the history is not written and nothing runs afterwards.
\* Infinities and the scalar gamma are not examined.
C5_NaNInArrayAborts ==
    [][solver = "CGLS" =>
        /\ pc = "scan" =>
              IF \/ \E k \in Idx : self.res[k] = NaN \/ self.r[k] = NaN \/ self.p[k] = NaN
                 \/ \E n \in 1..niter : l2l[n] = NaN
              THEN /\ pc' = "error"
                   /\ err' \in {"res", "r", "p", "l2l"}
                   /\ \E k \in DOMAIN Attr(err') : Attr(err')[k] = NaN
                   /\ l2l' = l2l /\ Slot(i) = 0
                   /\ self' = self
              ELSE pc' = "resid" /\ err' = ""
        /\ pc # "error"
        /\ pc' = "error" => (pc = "scan" \/ err' = "ZeroDivisionError")]_vars

C5_Witness ==
    /\ solver = "CGLS" /\ pc = "error" /\ i > 0
    /\ \E k \in Idx : self.res[k] = NaN
    /\ \E k \in Idx : self.res[k] # NaN

\* C6 as stated: every iteration of LSQR and LSMR evaluates Forward once and
\* Adjoint once, and every iteration of CGLS, those that restart or exit
\* included, evaluates Forward twice and Adjoint once.
C6_CallsPerIteration ==
    /\ (solver # "CGLS" /\ executed > 0) => calls = [ax |-> 1, atb |-> 1]
    /\ (solver = "CGLS" /\ executed > 0 /\ pc \in {"step", "summary", "exited"})
          => calls = [ax |-> 2, atb |-> 1]

\* the iteration that has just ended, when pc is at the loop header or after
\* the loop
LastIter == IF pc = "step" THEN i - 1 ELSE i

\* C6 as amended: LSQR and LSMR evaluate Forward once and Adjoint once per
\* iteration; a CGLS iteration evaluates Forward twice and Adjoint once when
\* it neither restarts, exits nor aborts, Forward three times and Adjoint
\* twice when it restarts, Forward twice and Adjoint never when it exits
\* early, and Forward once and Adjoint never when it aborts on a NaN.
C6_CallsPerIterationByOutcome ==
    /\ (solver # "CGLS" /\ executed > 0) => calls = [ax |-> 1, atb |-> 1]
    /\ (solver = "CGLS" /\ executed > 0 /\ pc \in {"step", "summary", "done"}) =>
          calls = IF LastIter \in restarts THEN [ax |-> 3, atb |-> 2]
                                           ELSE [ax |-> 2, atb |-> 1]
    /\ (solver = "CGLS" /\ pc = "exited") => calls = [ax |-> 2, atb |-> 0]
    /\ (solver = "CGLS" /\ pc = "error" /\ executed > 0) => calls = [ax |-> 1, atb |-> 0]

C6_Witness ==
    /\ solver = "CGLS" /\ pc = "step" /\ (i - 1) \in restarts
    /\ calls = [ax |-> 3, atb |-> 2]

\* C7: LSQR and LSMR run exactly niter iterations whatever the values are:
\* they never restart, never exit early and never raise, also when a norm is
\* zero and the state turns non-finite or when the residual norm grows.
C7_NoSafeguardInLSQRAndLSMR ==
    solver \in {"LSQR", "LSMR"} =>
        /\ pc \in {"constructed", "iter", "done"}
        /\ err = "" /\ restarts = {} /\ self.re_init_at_iteration = 0
        /\ executed <= niter
        /\ pc = "done" => executed = niter
        /\ pc = "iter" => executed < niter /\ executed = i

C7_Witness ==
    /\ solver = "LSMR" /\ pc = "done" /\ niter = MaxNiter
    /\ \E k \in 1..(niter - 1) : FGt(Slot(k), Slot(k - 1))
    /\ \E k \in Idx : ~IsFinite(self.res[k])

\* C8: slot j of the history is written only during iteration j and keeps
\* its value in every later iteration.
C8_SlotWrittenOnlyInItsIteration ==
    [][/\ i' >= i
       /\ \A k \in 0..(Len(l2l) - 1) :
             l2l'[k + 1] # l2l[k + 1] => (k = i /\ pc \in {"resid", "iter"})]_vars

C8_Witness ==
    /\ solver = "CGLS" /\ pc = "check" /\ i > 1
    /\ (i - 1) \in restarts
    /\ Slot(i - 1) # 0 /\ Slot(i) # Slot(i - 1)

\* C9: iteration k of LSMR computes hbar from the rho and rhobar that
\* iteration k - 1 left (1 and 1 for k = 0) and tautilda from the zeta and
\* thetatilda that iteration k - 1 left, while res and h use the rho, rhobar,
\* zeta and theta of iteration k.
C9_LagOneOperands ==
    [][(solver = "LSMR" /\ pc = "iter") =>
        LET thetabar == FMul(self.sbar, self'.rho)
            theta == FMul(FDiv(self'.beta, self'.rho), self'.alpha)
            rhotilda == FSqrt(FAdd(FMul(self.rhod, self.rhod), FMul(thetabar, thetabar)))
        IN  /\ executed = 0 => self.rho = Lit(1) /\ self.rhobar = Lit(1)
            /\ self'.hbar =
                  VSub(self.h, VScale(FDiv(FMul(thetabar, self'.rho),
                                           FMul(self.rho, self.rhobar)), self.hbar))
            /\ self'.tautilda =
                  FDiv(FSub(self.zeta, FMul(self.thetatilda, self.tautilda)), rhotilda)
            /\ self'.res =
                  VAdd(self.res, VScale(FDiv(self'.zeta, FMul(self'.rho, self'.rhobar)),
                                        self'.hbar))
            /\ self'.h = VSub(self'.v, VScale(FDiv(theta, self'.rho), self.h))]_vars

C9_Witness ==
    /\ solver = "LSMR" /\ pc = "done" /\ niter >= 3
    /\ self.rho # Lit(1) /\ self.rhobar # Lit(1) /\ self.rho # self.rhobar
    /\ self.hbar # Zeros /\ self.tautilda # 0
    /\ \A k \in Idx : IsFinite(self.res[k]) /\ IsFinite(self.hbar[k])

MaxOf(S) == CHOOSE m \in S : \A n \in S : n <= m

\* the restart marker and the loop counters of CGLS in one state
MarkerConsistent ==
    /\ \A j \in restarts : (j + 1) \notin restarts
    /\ self.re_init_at_iteration = (IF restarts = {} THEN 0 ELSE MaxOf(restarts))
    /\ self.re_init_at_iteration <= i
    /\ executed <= niter
    /\ (i < niter \/ niter = 0)
    /\ pc \in {"summary", "done"} => executed = niter

\* the positions inside the loop of CGLS.run_main_iter
LoopBody == {"step", "scan", "resid", "check", "update"}

\* a run that has not ended can take its next step
NotStuck ==
    /\ pc \in Terminal \cup {"constructed", "step", "scan", "resid", "check", "update",
                           "summary"}
    /\ pc = "summary" => (ENABLED CGLS_SummaryRaise \/ ENABLED CGLS_Summary)
    /\ pc = "scan" => (ENABLED CGLS_ScanRaise \/ ENABLED CGLS_ScanPass)
    /\ pc = "check" => \/ ENABLED CGLS_NoDivergence
                       \/ ENABLED CGLS_Exit
                       \/ (i > 0 /\ FGt(Slot(i), Slot(i - 1))
                             /\ self.re_init_at_iteration + 1 # i)

====
